---- MODULE Spec2Model ----
(***************************************************************************)
(* State-machine model of src/wrapper/wrap_cudadrv.cpp, the Boost.Python   *)
(* binding of the CUDA driver API.  The wrapper classes (context, stream,  *)
(* event, function, device_allocation, host_allocation) and the module's   *)
(* free functions are modelled operation by operation; the driver itself   *)
(* is the environment: it keeps a usage count per context, a stack of      *)
(* current contexts, the work pending on each stream and the set of        *)
(* allocated regions, and may answer any call with a non-success status.   *)
(***************************************************************************)
EXTENDS Integers, Sequences, FiniteSets, TLC

\* ------------------------------------------------------------------ bounds
MaxWrappers == 2      \* context wrapper objects ever constructed
MaxCtx      == 2      \* native contexts the driver ever creates
MaxStack    == 2      \* depth of the driver's current-context stack

MaxStreams  == 1      \* stream objects
MaxEvents   == 1      \* event objects
MaxPending  == 1      \* work items enqueued on a stream and not yet complete
MaxLen      == 1      \* length in bytes of a buffer handed to a copy
MaxHalves   == 3      \* float arguments are 0, 0.5, .. MaxHalves/2 (and -1, -0.5)

MaxDev      == 2      \* device regions the driver ever hands out
MaxHost     == 2      \* page-locked host regions the driver ever hands out
MaxRefs     == 2      \* Python references held to one DeviceAllocation

Wrappers == 1..MaxWrappers
DevRegions  == 1..MaxDev
HostRegions == 1..MaxHost
Streams  == 1..MaxStreams
Events   == 1..MaxEvents
Ctxs     == 1..MaxCtx
NoCtx    == 0

VARIABLES
  wrappers,   \* context objects: [st, m_context, m_valid] + history fields
  usage,      \* driver: usage count of each native context (0 = not alive)
  created,    \* driver: handles cuCtxCreate has handed out
  ctxStack,   \* driver: stack of current contexts, top first
  ctxLast,    \* the last context operation: what it called and how it ended
  anyFail,    \* history: some driver call has returned a non-success status
  halted,     \* the process has run into undefined behaviour
  pending,    \* driver: work enqueued on each stream and not yet complete
  evPending,  \* driver: the event has been recorded and has not happened yet
  callLast,   \* the last module-level operation: its calls and how it ended
  dev,        \* device regions: driver state, the owning wrapper, its free calls
  host,       \* page-locked regions: driver state, owner, array, free calls
  memLast     \* the last memory operation: its calls and how it ended

ctxVars  == <<wrappers, usage, created, ctxStack, ctxLast, anyFail, halted>>
callVars == <<pending, evPending, callLast>>
memVars  == <<dev, host, memLast>>
vars     == <<ctxVars, callVars, memVars>>

\* ------------------------------------------------------- error decoding
OK == "CUDA_SUCCESS"

\* cuda_error_to_str: the switch over CUresult, default included.
cuda_error_to_str(e) ==
  CASE e = "CUDA_SUCCESS" -> "success"
    [] e = "CUDA_ERROR_INVALID_VALUE" -> "invalid value"
    [] e = "CUDA_ERROR_OUT_OF_MEMORY" -> "out of memory"
    [] e = "CUDA_ERROR_NOT_INITIALIZED" -> "not initialized"
    [] e = "CUDA_ERROR_DEINITIALIZED" -> "deinitialized"
    [] e = "CUDA_ERROR_NO_DEVICE" -> "no device"
    [] e = "CUDA_ERROR_INVALID_DEVICE" -> "invalid device"
    [] e = "CUDA_ERROR_INVALID_IMAGE" -> "invalid image"
    [] e = "CUDA_ERROR_INVALID_CONTEXT" -> "invalid context"
    [] e = "CUDA_ERROR_CONTEXT_ALREADY_CURRENT" -> "context already current"
    [] e = "CUDA_ERROR_MAP_FAILED" -> "map failed"
    [] e = "CUDA_ERROR_UNMAP_FAILED" -> "unmap failed"
    [] e = "CUDA_ERROR_ARRAY_IS_MAPPED" -> "array is mapped"
    [] e = "CUDA_ERROR_ALREADY_MAPPED" -> "already mapped"
    [] e = "CUDA_ERROR_NO_BINARY_FOR_GPU" -> "no binary for gpu"
    [] e = "CUDA_ERROR_ALREADY_ACQUIRED" -> "already acquired"
    [] e = "CUDA_ERROR_NOT_MAPPED" -> "not mapped"
    [] e = "CUDA_ERROR_INVALID_SOURCE" -> "invalid source"
    [] e = "CUDA_ERROR_FILE_NOT_FOUND" -> "file not found"
    [] e = "CUDA_ERROR_INVALID_HANDLE" -> "invalid handle"
    [] e = "CUDA_ERROR_NOT_FOUND" -> "not found"
    [] e = "CUDA_ERROR_NOT_READY" -> "not ready"
    [] e = "CUDA_ERROR_LAUNCH_FAILED" -> "launch failed"
    [] e = "CUDA_ERROR_LAUNCH_OUT_OF_RESOURCES" -> "launch out of resources"
    [] e = "CUDA_ERROR_LAUNCH_TIMEOUT" -> "launch timeout"
    [] e = "CUDA_ERROR_LAUNCH_INCOMPATIBLE_TEXTURING" -> "launch incompatible texturing"
    [] e = "CUDA_ERROR_UNKNOWN" -> "unknown"
    [] OTHER -> "invalid error code"

NoMsg == <<>>

\* CALL_GUARDED(NAME, ARGLIST): the exception thrown for the status the call
\* returned, NoMsg when the status is CUDA_SUCCESS and control goes on.
CALL_GUARDED(NAME, cu_status_code) ==
  IF cu_status_code # OK
    THEN <<NAME, " failed: ", cuda_error_to_str(cu_status_code)>>
    ELSE NoMsg

\* One driver call as the operation's record keeps it.
Call(name, arg, status) == [name |-> name, arg |-> arg, status |-> status]

\* --------------------------------------------------- the driver, contexts
\* The statuses the driver may answer a call on context handle h with: a dead
\* handle is refused, a live one is served or fails for a reason of the
\* driver's own.
CtxStatuses(u, h) ==
  IF h \in Ctxs /\ u[h] > 0
    THEN {OK, "CUDA_ERROR_UNKNOWN"}
    ELSE {"CUDA_ERROR_INVALID_CONTEXT"}

PopStatuses(stack) ==
  IF stack # <<>> THEN {OK, "CUDA_ERROR_UNKNOWN"}
                     ELSE {"CUDA_ERROR_INVALID_CONTEXT"}

\* cuCtxAttach / cuCtxDetach as the wrapper uses them: one more, one fewer
\* user of the context; the driver destroys a context whose count reaches 0.
cuCtxAttach(u, h) == [u EXCEPT ![h] = @ + 1]
cuCtxDetach(u, h) == [u EXCEPT ![h] = @ - 1]

\* ------------------------------------------------------ context wrappers
\* st, m_context, m_valid are the object; the rest is history: assigned (it has
\* been the target of operator=), issued (the cuCtxDetach calls it has issued:
\* 0, 1, or 2 for "more than one") and rel (the handle its last successful
\* detach released, NoCtx once it is attached again).
Unborn == [st |-> "unborn", m_context |-> NoCtx, m_valid |-> FALSE,
           assigned |-> FALSE, issued |-> 0, rel |-> NoCtx]

Live(w) == wrappers[w].st = "live"

\* The next object to be constructed (objects are numbered in creation order).
Fresh(w) ==
  /\ wrappers[w].st = "unborn"
  /\ \A v \in Wrappers : v < w => wrappers[v].st # "unborn"

Inc(n, max) == IF n < max THEN n + 1 ELSE max

\* steps of an operation: the calls issued, the message thrown, the effect.
CtxOp(op, w, calls, msg, result) ==
  /\ ctxLast' = [op |-> op, w |-> w, calls |-> calls, msg |-> msg,
                 result |-> result]
  /\ anyFail' = (anyFail \/ \E i \in 1..Len(calls) : calls[i].status # OK)

InitCtx ==
  /\ wrappers = [w \in Wrappers |-> Unborn]
  /\ usage = [h \in Ctxs |-> 0]
  /\ created = {}
  /\ ctxStack = <<>>
  /\ ctxLast = [op |-> "none", w |-> 0, calls |-> <<>>, msg |-> NoMsg,
                result |-> "ok"]
  /\ anyFail = FALSE
  /\ halted = FALSE

\* detach() that forgets to clear m_valid after a successful cuCtxDetach.
detach_keeps_valid(c, u, status) ==
  IF c.m_valid
    THEN LET msg == CALL_GUARDED("cuCtxDetach", status) IN
         [c     |-> [c EXCEPT !.issued = Inc(@, 2)],
          u     |-> IF msg = NoMsg THEN cuCtxDetach(u, c.m_context) ELSE u,
          calls |-> <<Call("cuCtxDetach", c.m_context, status)>>,
          msg   |-> msg]
    ELSE [c |-> c, u |-> u, calls |-> <<>>, msg |-> NoMsg]

\* context::detach() on object c, the driver answering status to the
\* cuCtxDetach it may issue: the object afterwards, the usage counts
\* afterwards, the calls issued and the message thrown (NoMsg: it returned).
detach(c, u, status) ==
  IF c.m_valid
    THEN LET msg == CALL_GUARDED("cuCtxDetach", status) IN
         [c     |-> IF msg = NoMsg
                      THEN [c EXCEPT !.m_valid = FALSE, !.rel = c.m_context,
                                     !.issued = Inc(@, 2)]
                      ELSE [c EXCEPT !.issued = Inc(@, 2)],
          u     |-> IF msg = NoMsg THEN cuCtxDetach(u, c.m_context) ELSE u,
          calls |-> <<Call("cuCtxDetach", c.m_context, status)>>,
          msg   |-> msg]
    ELSE [c |-> c, u |-> u, calls |-> <<>>, msg |-> NoMsg]

\* The statuses the driver may answer detach()'s call with (none is issued,
\* and the choice is idle, when the object is not valid).
DetachStatuses(c) ==
  IF c.m_valid THEN CtxStatuses(usage, c.m_context) ELSE {OK}

\* device::make_context(flags): cuCtxCreate, then new context(ctx, false).
make_context(w) ==
  /\ ~halted /\ Fresh(w)
  /\ \E h \in Ctxs \ created :
       /\ \A g \in Ctxs \ created : h <= g
       /\ \E status \in {OK, "CUDA_ERROR_OUT_OF_MEMORY"} :
            LET msg == CALL_GUARDED("cuCtxCreate", status) IN
            /\ IF msg = NoMsg
                 THEN /\ created' = created \cup {h}
                      /\ usage' = [usage EXCEPT ![h] = 1]
                      /\ wrappers' = [wrappers EXCEPT ![w] =
                           [Unborn EXCEPT !.st = "live", !.m_context = h,
                                          !.m_valid = TRUE]]
                 ELSE UNCHANGED <<created, usage, wrappers>>
            /\ CtxOp("make_context", w, <<Call("cuCtxCreate", NoCtx, status)>>,
                     msg, IF msg = NoMsg THEN "ok" ELSE "raised")
  /\ UNCHANGED <<ctxStack, halted, callVars, memVars>>

\* A constructor that shares the handle without calling cuCtxAttach.
construct_unattached(op, w, h) ==
  /\ wrappers' = [wrappers EXCEPT ![w] =
       [Unborn EXCEPT !.st = "live", !.m_context = h, !.m_valid = TRUE]]
  /\ UNCHANGED usage
  /\ CtxOp(op, w, <<>>, NoMsg, "ok")

\* context(CUcontext ctx, bool borrowed) with borrowed = true, and the copy
\* constructor context(context const &src): m_context is set, m_valid is false
\* until cuCtxAttach has succeeded; a constructor that throws leaves no object.
construct_attached(op, w, h) ==
  \E status \in CtxStatuses(usage, h) :
    LET msg == CALL_GUARDED("cuCtxAttach", status) IN
    /\ IF msg = NoMsg
         THEN /\ usage' = cuCtxAttach(usage, h)
              /\ wrappers' = [wrappers EXCEPT ![w] =
                   [Unborn EXCEPT !.st = "live", !.m_context = h,
                                  !.m_valid = TRUE]]
         ELSE UNCHANGED <<usage, wrappers>>
    /\ CtxOp(op, w, <<Call("cuCtxAttach", h, status)>>, msg,
             IF msg = NoMsg THEN "ok" ELSE "raised")

context_borrowed(w, h) ==
  /\ ~halted /\ Fresh(w) /\ h \in created
  /\ construct_attached("context_borrowed", w, h)
  /\ UNCHANGED <<created, ctxStack, halted, callVars, memVars>>

context_copy(w, src) ==
  /\ ~halted /\ Fresh(w) /\ Live(src)
  /\ construct_attached("context_copy", w, wrappers[src].m_context)
  /\ UNCHANGED <<created, ctxStack, halted, callVars, memVars>>

\* Context.detach()
Detach(w) ==
  /\ ~halted /\ Live(w)
  /\ \E status \in DetachStatuses(wrappers[w]) :
       LET d == detach(wrappers[w], usage, status) IN
       /\ wrappers' = [wrappers EXCEPT ![w] = d.c]
       /\ usage' = d.u
       /\ CtxOp("detach", w, d.calls, d.msg,
                IF d.msg = NoMsg THEN "ok" ELSE "raised")
  /\ UNCHANGED <<created, ctxStack, halted, callVars, memVars>>

\* ~context() { detach(); }: the object is gone whether or not detach threw.
Destroy(w) ==
  /\ ~halted /\ Live(w)
  /\ \E status \in DetachStatuses(wrappers[w]) :
       LET d == detach(wrappers[w], usage, status) IN
       /\ wrappers' = [wrappers EXCEPT ![w] =
                         [Unborn EXCEPT !.st = "dead",
                                        !.assigned = d.c.assigned,
                                        !.issued = d.c.issued]]
       /\ usage' = d.u
       /\ CtxOp("destroy", w, d.calls, d.msg,
                IF d.msg = NoMsg THEN "ok" ELSE "raised")
  /\ UNCHANGED <<created, ctxStack, halted, callVars, memVars>>

\* context &operator=(const context &src): detach(), take src's handle, attach.
\* The function has no return statement, so a call that reaches its end has
\* undefined behaviour: it returns to the caller or the process is lost.
Assign(a, b) ==
  /\ ~halted /\ Live(a) /\ Live(b)
  /\ \E s1 \in DetachStatuses(wrappers[a]) :
       LET d == detach(wrappers[a], usage, s1)
           h == wrappers[b].m_context
       IN
       IF d.msg # NoMsg
         THEN /\ wrappers' = [wrappers EXCEPT ![a] =
                                [d.c EXCEPT !.assigned = TRUE]]
              /\ usage' = d.u
              /\ CtxOp("assign", a, d.calls, d.msg, "raised")
              /\ UNCHANGED halted
         ELSE \E s2 \in CtxStatuses(d.u, h) :
                LET msg   == CALL_GUARDED("cuCtxAttach", s2)
                    calls == d.calls \o <<Call("cuCtxAttach", h, s2)>>
                IN
                IF msg # NoMsg
                  THEN /\ wrappers' = [wrappers EXCEPT ![a] =
                            [d.c EXCEPT !.m_context = h, !.assigned = TRUE]]
                       /\ usage' = d.u
                       /\ CtxOp("assign", a, calls, msg, "raised")
                       /\ UNCHANGED halted
                  ELSE /\ wrappers' = [wrappers EXCEPT ![a] =
                            [d.c EXCEPT !.m_context = h, !.m_valid = TRUE,
                                        !.rel = NoCtx, !.assigned = TRUE]]
                       /\ usage' = cuCtxAttach(d.u, h)
                       /\ \E end \in {"ok", "undefined"} :
                            /\ CtxOp("assign", a, calls, msg, end)
                            /\ halted' = (end = "undefined")
  /\ UNCHANGED <<created, ctxStack, callVars, memVars>>

\* Context.push(): cuCtxPushCurrent(m_context), whatever m_valid says.
Push(w) ==
  /\ ~halted /\ Live(w) /\ Len(ctxStack) < MaxStack
  /\ \E status \in CtxStatuses(usage, wrappers[w].m_context) :
       LET msg == CALL_GUARDED("cuCtxPushCurrent", status) IN
       /\ ctxStack' = IF msg = NoMsg
                        THEN <<wrappers[w].m_context>> \o ctxStack
                        ELSE ctxStack
       /\ CtxOp("push", w,
                <<Call("cuCtxPushCurrent", wrappers[w].m_context, status)>>,
                msg, IF msg = NoMsg THEN "ok" ELSE "raised")
  /\ UNCHANGED <<wrappers, usage, created, halted, callVars, memVars>>

WrongContext == <<"popped the wrong context">>

\* Context.pop() that does not compare what it popped with m_context.
Pop_unchecked(w) ==
  /\ ~halted /\ Live(w)
  /\ \E status \in PopStatuses(ctxStack) :
       LET msg == CALL_GUARDED("cuCtxPopCurrent", status) IN
       /\ ctxStack' = IF msg = NoMsg THEN Tail(ctxStack) ELSE ctxStack
       /\ CtxOp("pop", w, <<Call("cuCtxPopCurrent", NoCtx, status)>>,
                msg, IF msg = NoMsg THEN "ok" ELSE "raised")
  /\ UNCHANGED <<wrappers, usage, created, halted, callVars, memVars>>

\* Context.pop(): cuCtxPopCurrent(&popped), then the comparison with m_context.
Pop(w) ==
  /\ ~halted /\ Live(w)
  /\ \E status \in PopStatuses(ctxStack) :
       LET msg == CALL_GUARDED("cuCtxPopCurrent", status) IN
       /\ ctxStack' = IF msg = NoMsg THEN Tail(ctxStack) ELSE ctxStack
       /\ CtxOp("pop", w, <<Call("cuCtxPopCurrent", NoCtx, status)>>,
                IF msg # NoMsg THEN msg
                ELSE IF Head(ctxStack) # wrappers[w].m_context
                       THEN WrongContext ELSE NoMsg,
                IF msg = NoMsg /\ Head(ctxStack) = wrappers[w].m_context
                  THEN "ok" ELSE "raised")
  /\ UNCHANGED <<wrappers, usage, created, halted, callVars, memVars>>

\* ------------------------------------------- guarded calls, polls, proxies
\* The statuses the driver is taken to answer with: success, "not ready", two
\* failures the switch of cuda_error_to_str names and one it does not.
Statuses == {OK, "CUDA_ERROR_NOT_READY", "CUDA_ERROR_INVALID_VALUE",
             "CUDA_ERROR_LAUNCH_FAILED", "CUDA_ERROR_999"}

\* A driver call with its arguments, as the operation's record keeps it.
DrvCall(name, args, status) == [name |-> name, args |-> args, status |-> status]

\* How an operation ended: it returned value, or it raised msg.
Returned(op, obj, calls, value) ==
  [op |-> op, obj |-> obj, calls |-> calls, outcome |-> "return",
   value |-> value, msg |-> NoMsg]
Raised(op, obj, calls, msg) ==
  [op |-> op, obj |-> obj, calls |-> calls, outcome |-> "raise",
   value |-> "none", msg |-> msg]

\* An operation whose body is one CALL_GUARDED and a return.
Guarded(op, obj, NAME, args, status, value) ==
  LET msg == CALL_GUARDED(NAME, status) IN
  IF msg = NoMsg THEN Returned(op, obj, <<DrvCall(NAME, args, status)>>, value)
                 ELSE Raised(op, obj, <<DrvCall(NAME, args, status)>>, msg)

\* The operations that are one guarded driver call and nothing else, each with
\* the entry point it calls.
ProxyCall ==
  [init |-> "cuInit", count |-> "cuDeviceGetCount", name |-> "cuDeviceGetName",
   compute_capability |-> "cuDeviceComputeCapability",
   total_memory |-> "cuDeviceTotalMem", get_attribute |-> "cuDeviceGetAttribute",
   make_device |-> "cuDeviceGet", get_device |-> "cuCtxGetDevice",
   synchronize |-> "cuCtxSynchronize",
   stream_synchronize |-> "cuStreamSynchronize",
   get_global |-> "cuModuleGetGlobal", load_module |-> "cuModuleLoad",
   get_function |-> "cuModuleGetFunction",
   set_block_shape |-> "cuFuncSetBlockShape",
   set_shared_size |-> "cuFuncSetSharedSize",
   param_set_size |-> "cuParamSetSize", launch |-> "cuLaunch",
   launch_grid |-> "cuLaunchGrid", mem_get_info |-> "cuMemGetInfo",
   mem_get_address_range |-> "cuMemGetAddressRange",
   event_synchronize |-> "cuEventSynchronize",
   time_since |-> "cuEventElapsedTime", time_till |-> "cuEventElapsedTime"]

\* The driver functions the module hands to py::def as they are.
RawCall ==
  [memset_d8 |-> "cuMemsetD8", memset_d16 |-> "cuMemsetD16",
   memset_d32 |-> "cuMemsetD32", memset_d2d8 |-> "cuMemsetD2D8",
   memset_d2d16 |-> "cuMemsetD2D16", memset_d2d32 |-> "cuMemsetD2D32",
   memcpy_dtod |-> "cuMemcpyDtoD"]

\* The C++ types the module registers a to-Python (by-value) conversion for:
\* its py::enum_ types and its py::class_ types that are not noncopyable.
ToPythonRegistered ==
  {"CUctx_flags", "CUarray_format", "CUaddress_mode", "CUfilter_mode",
   "CUdevice_attribute", "CUmemorytype", "device", "context", "function"}

NoConverter(type) ==
  <<"No to_python (by-value) converter found for C++ type: ", type>>

\* ----------------------------------------------------- module operations
CallOp(rec) ==
  /\ callLast' = rec
  /\ UNCHANGED <<ctxVars, memVars>>

\* Device, Context, Stream, Module, Function, Event and memory operations
\* that are CALL_GUARDED(NAME, ...) followed by the return of the result.
GuardedProxy(op) ==
  /\ \E status \in Statuses :
       CallOp(Guarded(op, 0, ProxyCall[op], <<>>, status, "result"))
  /\ UNCHANGED <<pending, evPending>>

\* py::def("memset_d8", cuMemsetD8, ...) and its like: the driver function is
\* the Python callable, so its CUresult is what Boost.Python has to convert to
\* a Python value when the call comes back.
RawProxy(op) ==
  /\ \E status \in Statuses :
       LET calls == <<DrvCall(RawCall[op], <<>>, status)>> IN
       CallOp(IF "CUresult" \in ToPythonRegistered
                THEN Returned(op, 0, calls, status)
                ELSE Raised(op, 0, calls, NoConverter("CUresult")))
  /\ UNCHANGED <<pending, evPending>>

\* Function.launch_grid_async(grid_width, grid_height, s)
launch_grid_async(s) ==
  /\ pending[s] < MaxPending
  /\ \E status \in Statuses :
       /\ CallOp(Guarded("launch_grid_async", s, "cuLaunchGridAsync", <<s>>,
                         status, "none"))
       /\ pending' = IF status = OK THEN [pending EXCEPT ![s] = @ + 1]
                                    ELSE pending
  /\ UNCHANGED evPending

\* Event.record() and Event.record(stream): cuEventRecord(m_event, ...)
record(e) ==
  /\ \E status \in Statuses :
       /\ CallOp(Guarded("record", e, "cuEventRecord", <<e>>, status, "none"))
       /\ evPending' = IF status = OK THEN [evPending EXCEPT ![e] = TRUE]
                                      ELSE evPending
  /\ UNCHANGED pending

\* The device finishes the oldest work item of stream s / reaches event e.
DriverCompletes(s) ==
  /\ pending[s] > 0
  /\ pending' = [pending EXCEPT ![s] = @ - 1]
  /\ UNCHANGED <<evPending, callLast, ctxVars, memVars>>

DriverReaches(e) ==
  /\ evPending[e]
  /\ evPending' = [evPending EXCEPT ![e] = FALSE]
  /\ UNCHANGED <<pending, callLast, ctxVars, memVars>>

\* What cuStreamQuery / cuEventQuery may answer: success when nothing is
\* outstanding, "not ready" when something is, or a failure.
QueryStatuses(outstanding) ==
  (IF outstanding THEN {"CUDA_ERROR_NOT_READY"} ELSE {OK})
    \cup {"CUDA_ERROR_INVALID_VALUE", "CUDA_ERROR_999"}

\* A poll that takes every status but "not ready" for completion.
poll_result_lax(op, obj, NAME, words, result) ==
  LET calls == <<DrvCall(NAME, <<obj>>, result)>> IN
  IF result = "CUDA_ERROR_NOT_READY" THEN Returned(op, obj, calls, FALSE)
                                     ELSE Returned(op, obj, calls, TRUE)

\* The switch of stream::is_done() and event::query() over the query's result.
poll_result(op, obj, NAME, words, result) ==
  LET calls == <<DrvCall(NAME, <<obj>>, result)>> IN
  CASE result = OK -> Returned(op, obj, calls, TRUE)
    [] result = "CUDA_ERROR_NOT_READY" -> Returned(op, obj, calls, FALSE)
    [] OTHER -> Raised(op, obj, calls,
                       <<NAME, words, cuda_error_to_str(result)>>)

\* Stream.is_done()
is_done(s) ==
  /\ \E result \in QueryStatuses(pending[s] > 0) :
       CallOp(poll_result("is_done", s, "cuStreamQuery",
                          " return unexpected error: ", result))
  /\ UNCHANGED <<pending, evPending>>

\* Event.query()
query(e) ==
  /\ \E result \in QueryStatuses(evPending[e]) :
       CallOp(poll_result("query", e, "cuEventQuery", " failed: ", result))
  /\ UNCHANGED <<pending, evPending>>

\* ------------------------------------------------- parameter binding
Offsets     == {0, 4}
FloatHalves == (-2)..MaxHalves          \* a float argument, in halves

UInt(v)  == [type |-> "unsigned int", v |-> v]
Float(h) == [type |-> "float", halves |-> h]

\* The implicit conversion of a float argument to the unsigned int parameter of
\* cuParamSeti: the fraction is dropped; a value that then lies outside the
\* range of unsigned int (-1.0 here) has no defined result: any value.
FloatToUInt(h) ==
  IF h >= 0 THEN {h \div 2}
  ELSE IF h > -2 THEN {0}
  ELSE 0..MaxHalves

\* Function.param_seti(offset, value): param_set(int, unsigned int)
param_seti(offset, value) ==
  /\ \E status \in Statuses :
       CallOp(Guarded("param_seti", [offset |-> offset, value |-> UInt(value)],
                      "cuParamSeti", <<offset, UInt(value)>>, status, "none"))
  /\ UNCHANGED <<pending, evPending>>

\* Function.param_setf(offset, value): param_set(int, float)
param_setf(offset, value) ==
  /\ \E status \in Statuses, v \in FloatToUInt(value) :
       CallOp(Guarded("param_setf", [offset |-> offset, value |-> Float(value)],
                      "cuParamSeti", <<offset, UInt(v)>>, status, "none"))
  /\ UNCHANGED <<pending, evPending>>

\* ---------------------------------------------------------- buffer copies
\* A Python object handed in as a buffer: what its buffer interface offers and
\* how long it is.
Buffers ==
  {[kind |-> "nobuffer", len |-> 0]}
    \cup [kind : {"readonly", "readwrite"}, len : 0..MaxLen]

\* PyObject_AsWriteBuffer that is content with a read-only buffer.
PyObject_AsWriteBuffer_lax(b) == b.kind \in {"readonly", "readwrite"}

\* PyObject_AsReadBuffer / PyObject_AsWriteBuffer succeed (return 0) on b.
PyObject_AsReadBuffer(b) == b.kind \in {"readonly", "readwrite"}
PyObject_AsWriteBuffer(b) == b.kind = "readwrite"

TypeError == <<"TypeError">>

\* The body the five buffer operations share: throw error_already_set when the
\* buffer could not be had, else the guarded call with the buffer's length.
buffer_call(op, b, got, NAME, rest, status) ==
  IF ~got THEN Raised(op, b, <<>>, TypeError)
          ELSE Guarded(op, b, NAME, <<b.len>> \o rest, status, "none")

memcpy_htod(b) ==
  /\ \E status \in Statuses :
       CallOp(buffer_call("memcpy_htod", b, PyObject_AsReadBuffer(b),
                          "cuMemcpyHtoD", <<>>, status))
  /\ UNCHANGED <<pending, evPending>>

memcpy_dtoh(b) ==
  /\ \E status \in Statuses :
       CallOp(buffer_call("memcpy_dtoh", b, PyObject_AsWriteBuffer(b),
                          "cuMemcpyDtoH", <<>>, status))
  /\ UNCHANGED <<pending, evPending>>

\* The work an asynchronous copy that was issued and accepted leaves on s.
Enqueued(rec, s) ==
  IF rec.outcome = "return" THEN [pending EXCEPT ![s] = @ + 1] ELSE pending

memcpy_htod_async(b, s) ==
  /\ pending[s] < MaxPending
  /\ \E status \in Statuses :
       LET rec == buffer_call("memcpy_htod_async", b, PyObject_AsReadBuffer(b),
                              "cuMemcpyHtoDAsync", <<s>>, status) IN
       CallOp(rec) /\ pending' = Enqueued(rec, s)
  /\ UNCHANGED evPending

memcpy_dtoh_async(b, s) ==
  /\ pending[s] < MaxPending
  /\ \E status \in Statuses :
       LET rec == buffer_call("memcpy_dtoh_async", b, PyObject_AsWriteBuffer(b),
                              "cuMemcpyDtoHAsync", <<s>>, status) IN
       CallOp(rec) /\ pending' = Enqueued(rec, s)
  /\ UNCHANGED evPending

\* Function.param_setv(offset, buffer)
param_setv(offset, b) ==
  /\ \E status \in Statuses :
       CallOp(buffer_call("param_setv", b, PyObject_AsReadBuffer(b),
                          "cuParamSetv", <<offset>>, status))
  /\ UNCHANGED <<pending, evPending>>

NextCall ==
  \/ \E op \in DOMAIN RawCall : RawProxy(op)
  \/ \E op \in DOMAIN ProxyCall : GuardedProxy(op)
  \/ \E s \in Streams : launch_grid_async(s)
  \/ \E e \in Events : record(e)
  \/ \E s \in Streams : DriverCompletes(s)
  \/ \E e \in Events : DriverReaches(e)
  \/ \E s \in Streams : is_done(s)
  \/ \E e \in Events : query(e)
  \/ \E offset \in Offsets, value \in 0..MaxHalves : param_seti(offset, value)
  \/ \E offset \in Offsets, value \in FloatHalves : param_setf(offset, value)
  \/ \E b \in Buffers : memcpy_htod(b)
  \/ \E b \in Buffers : memcpy_dtoh(b)
  \/ \E b \in Buffers, s \in Streams : memcpy_htod_async(b, s)
  \/ \E b \in Buffers, s \in Streams : memcpy_dtoh_async(b, s)
  \/ \E offset \in Offsets, b \in Buffers : param_setv(offset, b)

\* ------------------------------------------------------------- memory
\* The conversion of a raw C++ pointer to a Python object by py::object(p) and
\* py::make_tuple(p, ...): Boost.Python converts the pointee by value and never
\* adopts the pointer; it throws when the type has no by-value conversion.
pointer_to_python(type) ==
  IF type \in ToPythonRegistered THEN NoMsg ELSE NoConverter(type)

NoDev == [state |-> "none", wrapper |-> "none", refs |-> 0, frees |-> 0]
NoHost == [state |-> "none", owner |-> "none", array |-> "none", frees |-> 0]

FreshDev(r) ==
  dev[r].state = "none" /\ \A q \in DevRegions : q < r => dev[q].state # "none"
FreshHost(r) ==
  host[r].state = "none" /\ \A q \in HostRegions : q < r => host[q].state # "none"

AllocStatuses == {OK, "CUDA_ERROR_OUT_OF_MEMORY"}
FreeStatuses  == {OK, "CUDA_ERROR_INVALID_VALUE"}

MemOp(rec) ==
  /\ memLast' = rec
  /\ UNCHANGED <<wrappers, usage, created, ctxStack, ctxLast, anyFail, callVars>>

\* mem_alloc(bytes), returned under manage_new_object: the Python object that
\* comes back owns the new device_allocation.
mem_alloc(r) ==
  /\ ~halted /\ FreshDev(r)
  /\ \E status \in AllocStatuses :
       /\ MemOp(Guarded("mem_alloc", r, "cuMemAlloc", <<>>, status, r))
       /\ dev' = IF status = OK
                   THEN [dev EXCEPT ![r] = [state |-> "allocated",
                           wrapper |-> "python", refs |-> 1, frees |-> 0]]
                   ELSE dev
  /\ UNCHANGED <<host, halted>>

\* mem_alloc_pitch(width, height, access_size): the new device_allocation goes
\* into py::make_tuple as a raw pointer.
mem_alloc_pitch(r) ==
  /\ ~halted /\ FreshDev(r)
  /\ \E status \in AllocStatuses :
       LET calls == <<DrvCall("cuMemAllocPitch", <<>>, status)>>
           msg   == CALL_GUARDED("cuMemAllocPitch", status)
           conv  == pointer_to_python("device_allocation")
       IN
       IF msg # NoMsg
         THEN MemOp(Raised("mem_alloc_pitch", r, calls, msg)) /\ UNCHANGED dev
         ELSE /\ MemOp(IF conv = NoMsg
                         THEN Returned("mem_alloc_pitch", r, calls, r)
                         ELSE Raised("mem_alloc_pitch", r, calls, conv))
              /\ dev' = [dev EXCEPT ![r] = [state |-> "allocated",
                           wrapper |-> "leaked", refs |-> 0, frees |-> 0]]
  /\ UNCHANGED <<host, halted>>

\* Python takes another reference to a DeviceAllocation.
AddRef(r) ==
  /\ ~halted /\ dev[r].wrapper = "python" /\ dev[r].refs < MaxRefs
  /\ dev' = [dev EXCEPT ![r].refs = @ + 1]
  /\ UNCHANGED <<host, memLast, ctxVars, callVars>>

\* Python drops a reference; with the last one the object goes and
\* ~device_allocation() runs CALL_GUARDED(cuMemFree, (m_devptr)).
DropRef(r) ==
  /\ ~halted /\ dev[r].wrapper = "python"
  /\ IF dev[r].refs > 1
       THEN /\ dev' = [dev EXCEPT ![r].refs = @ - 1]
            /\ UNCHANGED <<memLast, ctxVars, callVars>>
       ELSE \E status \in FreeStatuses :
              /\ MemOp(Guarded("~device_allocation", r, "cuMemFree", <<r>>,
                               status, "none"))
              /\ dev' = [dev EXCEPT ![r] =
                   [state   |-> IF status = OK THEN "released" ELSE @.state,
                    wrapper |-> "destroyed", refs |-> 0,
                    frees   |-> @.frees + 1]]
  /\ UNCHANGED <<host, halted>>

\* size_from_dims(ndim, dims)
RECURSIVE Product(_)
Product(dims) == IF dims = <<>> THEN 1 ELSE Head(dims) * Product(Tail(dims))
size_from_dims(dims) == IF Len(dims) # 0 THEN Product(dims) ELSE 1

Shapes  == {<<2>>, <<2, 3>>}
ElSizes == {4}
Orders  == {"C", "F", "A", "unknown"}

\* PyArray_OrderConverter(order_py, &order), its return value unused: an object
\* it does not know leaves order as it was initialised, PyArray_CORDER.
OrderConverted(order_py) == IF order_py = "unknown" THEN "C" ELSE order_py

\* pagelocked_empty(shape, dtype, order): descr is whether the dtype converts,
\* built whether PyArray_NewFromDescr gives an array.  A host_allocation the
\* auto_ptr still holds when an exception leaves the function is destroyed on
\* the way out, ~host_allocation() running CALL_GUARDED(cuMemFreeHost, ...); if
\* that throws too, the process is terminated.
pagelocked_empty(r, descr, shape, elsize, order_py, built) ==
  /\ ~halted /\ FreshHost(r)
  /\ IF ~descr
       THEN /\ MemOp(Raised("pagelocked_empty", r, <<>>, TypeError))
            /\ UNCHANGED <<host, halted>>
       ELSE \E status \in AllocStatuses, freed \in FreeStatuses :
         LET bytesize == elsize * size_from_dims(shape)
             alloc == DrvCall("cuMemAllocHost", <<bytesize>>, status)
             free  == DrvCall("cuMemFreeHost", <<r>>, freed)
             order == OrderConverted(order_py)
             conv  == pointer_to_python("host_allocation")
             unwound(array, msg) ==
               /\ MemOp(Raised("pagelocked_empty", r, <<alloc, free>>,
                               IF freed = OK THEN msg ELSE <<"terminate">>))
               /\ host' = [host EXCEPT ![r] =
                    [state |-> IF freed = OK THEN "released" ELSE "pinned",
                     owner |-> "destroyed", array |-> array, frees |-> 1]]
               /\ halted' = (freed # OK)
         IN
         IF status # OK
           THEN /\ MemOp(Raised("pagelocked_empty", r, <<alloc>>,
                                CALL_GUARDED("cuMemAllocHost", status)))
                /\ UNCHANGED <<host, halted>>
         ELSE IF order \notin {"F", "C"}
           THEN unwound("none", <<"unrecognized order specifier">>)
         ELSE IF ~built
           THEN unwound("none", <<"MemoryError">>)
         ELSE IF conv # NoMsg
           THEN \* alloc.release() has given the allocation up; the array goes
                \* with the result handle.
                /\ MemOp(Raised("pagelocked_empty", r, <<alloc>>, conv))
                /\ host' = [host EXCEPT ![r] =
                     [state |-> "pinned", owner |-> "leaked",
                      array |-> "gone", frees |-> 0]]
                /\ UNCHANGED halted
           ELSE /\ MemOp(Returned("pagelocked_empty", r, <<alloc>>, r))
                /\ host' = [host EXCEPT ![r] =
                     [state |-> "pinned", owner |-> "base",
                      array |-> "live", frees |-> 0]]
                /\ UNCHANGED halted
  /\ UNCHANGED dev

InitMem ==
  /\ dev = [r \in DevRegions |-> NoDev]
  /\ host = [r \in HostRegions |-> NoHost]
  /\ memLast = Returned("none", 0, <<>>, "none")

NextMem ==
  \/ \E r \in DevRegions : mem_alloc(r)
  \/ \E r \in DevRegions : mem_alloc_pitch(r)
  \/ \E r \in DevRegions : AddRef(r)
  \/ \E r \in DevRegions : DropRef(r)
  \/ \E r \in HostRegions, descr \in BOOLEAN, shape \in Shapes,
        elsize \in ElSizes, order_py \in Orders, built \in BOOLEAN :
       pagelocked_empty(r, descr, shape, elsize, order_py, built)

InitCall ==
  /\ pending = [s \in Streams |-> 0]
  /\ evPending = [e \in Events |-> FALSE]
  /\ callLast = Returned("none", 0, <<>>, "none")

Init == InitCtx /\ InitCall /\ InitMem

\* The lifetime of context objects: construction, copy, assignment, detach,
\* destruction.
NextLife ==
  \/ \E w \in Wrappers : make_context(w)
  \/ \E w \in Wrappers, h \in Ctxs : context_borrowed(w, h)
  \/ \E w, src \in Wrappers : context_copy(w, src)
  \/ \E a, b \in Wrappers : Assign(a, b)
  \/ \E w \in Wrappers : Detach(w)
  \/ \E w \in Wrappers : Destroy(w)

\* ... and the current-context stack with it.
NextCtx ==
  \/ NextLife
  \/ \E w \in Wrappers : Push(w)
  \/ \E w \in Wrappers : Pop(w)

\* The current-context stack by itself: contexts are created, shared and
\* detached, pushed and popped; no assignment, no destruction.
NextStack ==
  \/ \E w \in Wrappers : make_context(w)
  \/ \E w, src \in Wrappers : context_copy(w, src)
  \/ \E w \in Wrappers : Detach(w)
  \/ \E w \in Wrappers : Push(w)
  \/ \E w \in Wrappers : Pop(w)

SpecLife == Init /\ [][NextLife]_vars
SpecStack == Init /\ [][NextStack]_vars
SpecCtx == Init /\ [][NextCtx]_vars
SpecCall == Init /\ [][NextCall]_vars
SpecMem == Init /\ [][NextMem]_vars

\* ------------------------------------------------------------------ claims
\* C1: a context object that is never the target of operator=, every driver
\* call succeeding, issues cuCtxDetach exactly once over any number of detach()
\* calls followed by its destruction: none while it is still valid, one from
\* the first detach() on, one (and no more) once it is destroyed; and a
\* detach() or destruction issues nothing but that one cuCtxDetach.
ExactlyOnceRelease ==
  ~anyFail =>
    \A w \in Wrappers :
      ~wrappers[w].assigned =>
        /\ wrappers[w].st = "unborn" => wrappers[w].issued = 0
        /\ (Live(w) /\ wrappers[w].m_valid) => wrappers[w].issued = 0
        /\ (Live(w) /\ ~wrappers[w].m_valid) => wrappers[w].issued = 1
        /\ wrappers[w].st = "dead" => wrappers[w].issued = 1
        /\ (ctxLast.w = w /\ ctxLast.op \in {"detach", "destroy"}) =>
             /\ Len(ctxLast.calls) <= 1
             /\ \A i \in 1..Len(ctxLast.calls) :
                  ctxLast.calls[i].name = "cuCtxDetach"

\* C1's case: an object detached explicitly and then destroyed, the destructor
\* issuing no call.
WitExactlyOnceRelease ==
  /\ ~anyFail
  /\ ctxLast.op = "destroy" /\ ctxLast.calls = <<>>
  /\ ctxLast.w \in Wrappers
  /\ wrappers[ctxLast.w].st = "dead"
  /\ ~wrappers[ctxLast.w].assigned
  /\ wrappers[ctxLast.w].issued = 1

\* The live objects that hold handle h with their validity flag set.
ValidHolders(h) ==
  {w \in Wrappers : Live(w) /\ wrappers[w].m_context = h /\ wrappers[w].m_valid}

\* C3: driver calls succeeding, the usage count of every native context is the
\* number of live, valid context objects that hold its handle.
UsageBalance ==
  ~anyFail => \A h \in Ctxs : usage[h] = Cardinality(ValidHolders(h))

\* C3's case: a context shared by its creator and the copy just constructed.
WitUsageBalance ==
  /\ ~anyFail
  /\ ctxLast.op = "context_copy" /\ ctxLast.result = "ok"
  /\ \E h \in Ctxs : usage[h] = 2 /\ Cardinality(ValidHolders(h)) = 2

\* C2: an object whose detach() has released its handle issues no later driver
\* call (from push, pop, detach or its destruction) with that handle as the
\* argument.
NeverUsesReleasedHandle ==
  [][\A w \in Wrappers :
       ( /\ Live(w) /\ ~wrappers[w].m_valid
         /\ wrappers[w].rel # NoCtx /\ wrappers[w].rel = wrappers[w].m_context
         /\ ctxLast'.w = w
         /\ ctxLast'.op \in {"push", "pop", "detach", "destroy"} )
       => \A i \in 1..Len(ctxLast'.calls) :
            ctxLast'.calls[i].arg # wrappers[w].rel]_vars

\* C7: an operation that raises leaves the object's handle and validity flag,
\* the usage counts and the current-context stack as they were.
FailsAtomically ==
  [][( /\ ctxLast'.result = "raised"
       /\ ctxLast'.op # "destroy" )
     => /\ wrappers'[ctxLast'.w].m_context = wrappers[ctxLast'.w].m_context
        /\ wrappers'[ctxLast'.w].m_valid = wrappers[ctxLast'.w].m_valid
        /\ usage' = usage
        /\ ctxStack' = ctxStack]_vars

Range(f) == {f[i] : i \in DOMAIN f}

\* C4: whatever the operation, a driver call that answered anything but
\* CUDA_SUCCESS makes the operation raise, with the call's name and the decoded
\* status in the message; nothing is returned after a non-success status.
EveryDriverCallChecked ==
  \A i \in 1..Len(callLast.calls) :
    callLast.calls[i].status # OK =>
      /\ callLast.outcome = "raise"
      /\ callLast.calls[i].name \in Range(callLast.msg)
      /\ cuda_error_to_str(callLast.calls[i].status) \in Range(callLast.msg)

\* What each buffer operation asks of the buffer, and the call it makes.
BufferOps ==
  [memcpy_htod |-> [need |-> "read", call |-> "cuMemcpyHtoD"],
   memcpy_htod_async |-> [need |-> "read", call |-> "cuMemcpyHtoDAsync"],
   param_setv |-> [need |-> "read", call |-> "cuParamSetv"],
   memcpy_dtoh |-> [need |-> "write", call |-> "cuMemcpyDtoH"],
   memcpy_dtoh_async |-> [need |-> "write", call |-> "cuMemcpyDtoHAsync"]]

Offers(b, need) ==
  IF need = "read" THEN b.kind \in {"readonly", "readwrite"}
                   ELSE b.kind = "readwrite"

\* C5: a buffer operation given an object without the capability it needs
\* raises and issues no driver call; given one that has it, it issues its one
\* driver call with the buffer's length as the byte count.
BufferCapabilityChecked ==
  callLast.op \in DOMAIN BufferOps =>
    LET b == callLast.obj
        o == BufferOps[callLast.op]
    IN IF Offers(b, o.need)
         THEN /\ Len(callLast.calls) = 1
              /\ callLast.calls[1].name = o.call
              /\ callLast.calls[1].args[1] = b.len
         ELSE /\ callLast.outcome = "raise"
              /\ callLast.calls = <<>>

\* C5's case: a device-to-host copy into a read-only buffer, refused.
WitBufferCapabilityChecked ==
  /\ callLast.op = "memcpy_dtoh"
  /\ callLast.obj.kind = "readonly" /\ callLast.obj.len = MaxLen
  /\ callLast.outcome = "raise" /\ callLast.calls = <<>>

Polls == [is_done |-> "cuStreamQuery", query |-> "cuEventQuery"]

Outstanding(op, obj) ==
  IF op = "is_done" THEN pending[obj] > 0 ELSE evPending[obj]

\* C9, the answer: a poll issues exactly one query; it returns true exactly when
\* the driver answers CUDA_SUCCESS, false exactly when it answers
\* CUDA_ERROR_NOT_READY, and raises with the decoded status on anything else;
\* it reports completion only when nothing is outstanding at the driver.
PollAnswer ==
  callLast.op \in DOMAIN Polls =>
    LET st == callLast.calls[1].status IN
    /\ Len(callLast.calls) = 1
    /\ callLast.calls[1].name = Polls[callLast.op]
    /\ (callLast.outcome = "return" /\ callLast.value = TRUE) <=> st = OK
    /\ (callLast.outcome = "return" /\ callLast.value = FALSE)
         <=> st = "CUDA_ERROR_NOT_READY"
    /\ st \notin {OK, "CUDA_ERROR_NOT_READY"} =>
         /\ callLast.outcome = "raise"
         /\ cuda_error_to_str(st) \in Range(callLast.msg)
    /\ (callLast.outcome = "return" /\ callLast.value = TRUE) =>
         ~Outstanding(callLast.op, callLast.obj)

\* C9: the answer of a poll, and a poll changes nothing: the work outstanding
\* on streams and events is what it was.
PollThreeValued ==
  /\ []PollAnswer
  /\ [][(callLast' # callLast /\ callLast'.op \in DOMAIN Polls)
          => UNCHANGED <<pending, evPending>>]_vars

\* C9's case: work was enqueued on a stream and the poll answers "not done".
WitPollThreeValued ==
  /\ callLast.op = "is_done" /\ callLast.outcome = "return"
  /\ callLast.value = FALSE
  /\ pending[callLast.obj] > 0

\* C10: param_setf hands offset and the float, unchanged, to the driver's float
\* setter, as param_seti hands offset and the integer to the integer setter.
ParamForwardedUnchanged ==
  /\ callLast.op = "param_seti" =>
       /\ callLast.calls[1].name = "cuParamSeti"
       /\ callLast.calls[1].args = <<callLast.obj.offset, callLast.obj.value>>
  /\ callLast.op = "param_setf" =>
       /\ callLast.calls[1].name = "cuParamSetf"
       /\ callLast.calls[1].args = <<callLast.obj.offset, callLast.obj.value>>

\* C8: every region the driver has allocated through mem_alloc or
\* mem_alloc_pitch has one device_allocation that the caller's runtime owns
\* and that has not freed it yet, or its wrapper has been destroyed and
\* cuMemFree was issued for it exactly once; none is left without such an owner.
DeviceRegionOwnedOnce ==
  \A r \in DevRegions :
    dev[r].state # "none" =>
      \/ dev[r].wrapper = "python" /\ dev[r].refs > 0 /\ dev[r].frees = 0
      \/ dev[r].wrapper = "destroyed" /\ dev[r].frees = 1

\* C6: for a page-locked region that backs an array, cuMemFreeHost is not
\* issued while the array is referenced and is issued exactly once when the
\* array's last reference has been dropped.
PinnedLivesWithArray ==
  \A r \in HostRegions :
    /\ host[r].array = "live" => host[r].frees = 0 /\ host[r].state = "pinned"
    /\ host[r].array = "gone" => host[r].frees = 1

\* The usage counts once the detach() that operator= begins with has returned
\* (the driver answering CUDA_SUCCESS), before its cuCtxAttach is issued.
AfterDetach(a) == detach(wrappers[a], usage, OK).u

\* What one successful a = b adds to the usage count of handle g: one fewer
\* for the handle a held with its validity flag set, one more for b's.
AssignDelta(a, b, g) ==
  (IF g = wrappers[b].m_context THEN 1 ELSE 0)
    - (IF wrappers[a].m_valid /\ g = wrappers[a].m_context THEN 1 ELSE 0)

\* C11, the outcome: after a = b has returned, a holds b's handle with its
\* validity flag set, the context a held has one user fewer (if a was valid)
\* and b's has one more, every other count being what it was.
AssignOutcome ==
  \A a, b \in Wrappers :
    (Assign(a, b) /\ ctxLast'.result = "ok") =>
      /\ wrappers'[a].m_context = wrappers[b].m_context
      /\ wrappers'[a].m_valid
      /\ \A g \in Ctxs : usage'[g] = usage[g] + AssignDelta(a, b, g)

\* C11, self-assignment: while a = a runs on a valid object, the usage count of
\* its context does not reach zero between the detach and the attach.
SelfAssignKeepsContext ==
  \A a \in Wrappers :
    (Assign(a, a) /\ wrappers[a].m_valid /\ Len(ctxLast'.calls) = 2) =>
      AfterDetach(a)[wrappers[a].m_context] > 0

\* C11: copy-assignment keeps the usage counts balanced and releases no context
\* that is still needed: AssignOutcome for every a = b that returns, a = a
\* included, and SelfAssignKeepsContext while a = a runs.
AssignKeepsBalance ==
  [][AssignOutcome /\ SelfAssignKeepsContext]_vars

\* The step is a pop() of object w whose driver pop succeeded and removed the
\* context w holds from the top of the stack.
PopFits(w) ==
  /\ ctxLast'.calls[1].status = OK
  /\ ctxStack # <<>>
  /\ Head(ctxStack) = wrappers[w].m_context

\* C12, pop(): it returns normally exactly when the driver pop succeeds and the
\* context removed from the top is the one the object holds; otherwise it
\* raises, with 'popped the wrong context' when the driver pop succeeded and
\* another context was on top.
PopAnswer ==
  \A w \in Wrappers :
    (ctxLast'.op = "pop" /\ ctxLast'.w = w) =>
      /\ Len(ctxLast'.calls) = 1
      /\ ctxLast'.calls[1].name = "cuCtxPopCurrent"
      /\ (ctxLast'.result = "ok" /\ ctxLast'.msg = NoMsg) <=> PopFits(w)
      /\ ~PopFits(w) => (ctxLast'.result = "raised" /\ ctxLast'.msg # NoMsg)
      /\ ( /\ ctxLast'.calls[1].status = OK
           /\ ctxStack # <<>> /\ Head(ctxStack) # wrappers[w].m_context )
         => ctxLast'.msg = WrongContext

\* C12, the pair: a push() that returns puts the object's context on top of
\* the stack it found, and a pop() of the same object right after it, the
\* driver pop succeeding, returns normally and leaves that stack again.
PushThenPop ==
  \A w \in Wrappers :
    /\ (ctxLast'.op = "push" /\ ctxLast'.w = w /\ ctxLast'.result = "ok") =>
         ctxStack' = <<wrappers[w].m_context>> \o ctxStack
    /\ ( /\ ctxLast.op = "push" /\ ctxLast.w = w /\ ctxLast.result = "ok"
         /\ ctxLast'.op = "pop" /\ ctxLast'.w = w
         /\ ctxLast'.calls[1].status = OK )
       => /\ ctxLast'.result = "ok"
          /\ ctxStack = <<wrappers[w].m_context>> \o ctxStack'

\* C12: push/pop pairing, PopAnswer for every pop() and PushThenPop for the
\* pair c.push(); c.pop().
PushPopPaired ==
  [][PopAnswer /\ PushThenPop]_vars

\* C12's case: a pop() that returned normally with another entry still on the
\* stack under the one it removed.
WitPushPopPaired ==
  /\ ctxLast.op = "pop" /\ ctxLast.result = "ok"
  /\ ctxLast.calls[1].status = OK
  /\ ctxStack # <<>>
  /\ Head(ctxStack) # wrappers[ctxLast.w].m_context

====
